---- MODULE Spec2Model ----
(***************************************************************************)
(* Model of src/server.js: the socket.io signaling server.  The state is   *)
(* the two module-level maps (rooms, roomAdmins), each socket's data and   *)
(* group memberships, and the wall clock read by Date.now().  One action   *)
(* per event handler; every handler runs to completion (Node's event loop).*)
(***************************************************************************)
EXTENDS Integers, Sequences, FiniteSets, TLC

(* ------------------------------ bounds -------------------------------- *)
NumSockets == 2
NumRooms == 2
NumUsers == 1
MaxNow == 2
MaxEvents == 4

(* ------------------------------ values -------------------------------- *)
\* JavaScript's undefined, as read from an absent property.  Client strings
\* are drawn from sets that do not contain it.
Undefined == "<undefined>"

SocketIds == {"s" \o ToString(i) : i \in 1..NumSockets}
RoomIds == {"r" \o ToString(i) : i \in 1..NumRooms}
UserIds == {"u" \o ToString(i) : i \in 1..NumUsers}
DisplayNames == {"d1"}

\* the group names `room:${roomId}` and `admin:${roomId}`
RoomGroupName == [r \in RoomIds |-> "room:" \o r]
AdminGroupName == [r \in RoomIds |-> "admin:" \o r]
RoomGroup(roomId) == RoomGroupName[roomId]
AdminGroup(roomId) == AdminGroupName[roomId]

\* !v for the string-or-undefined values a payload field can hold
Falsy(v) == v \in {Undefined, ""}

\* property read: obj.f, undefined when the property is absent
Get(obj, f) == IF f \in DOMAIN obj THEN obj[f] ELSE Undefined

\* { ...a, ...b }: the properties of b win
Spread(a, b) == b @@ a

EmptyObject == [f \in {} |-> Undefined]

\* an object literal with the property f present only when v is given
Opt(f, v) == IF v = Undefined THEN EmptyObject ELSE f :> v

(* --------------------------- client payloads -------------------------- *)
RoomInputs == RoomIds \cup {"", Undefined}
UserInputs == UserIds \cup {"", Undefined}
NameInputs == DisplayNames \cup {Undefined}
AllowInputs == {"true", "false", Undefined}

JoinPayloads ==
  {Opt("roomId", r) @@ Opt("userId", u) @@ Opt("displayName", d) :
     r \in RoomInputs, u \in UserInputs, d \in NameInputs}

ConsentPayloads ==
  {Opt("roomId", r) @@ Opt("userId", u) @@ Opt("allow", a) :
     r \in RoomInputs, u \in UserInputs, a \in AllowInputs}

SubscribePayloads == {Opt("roomId", r) : r \in RoomInputs}

\* `to` is any string a client likes: a socket id, the name of a group, or absent
ToInputs == SocketIds \cup {RoomGroup(r) : r \in RoomIds}
                      \cup {AdminGroup(r) : r \in RoomIds} \cup {Undefined}
RelayEvents == {"webrtc:offer", "webrtc:answer", "webrtc:ice"}
RelayField(ev) == IF ev = "webrtc:ice" THEN "candidate" ELSE "sdp"
RelayPayloads(ev) ==
  {Opt("to", t) @@ Opt(RelayField(ev), x) : t \in ToInputs, x \in {"blob"}}

\* handlers whose parameter is a destructuring pattern
DestructuringEvents == {"join", "stream:consent", "admin:subscribe"} \cup RelayEvents

\* !!allow
ToBoolean(v) == v = "true"

(* ------------------------------ state --------------------------------- *)
VARIABLES
  conn,         \* transport: socket id -> "idle" | "connected" | "closed"
  data,         \* socket.data of each socket: { role, roomId, userId }
  socketRooms,  \* socket.rooms: the groups each socket is a member of
  rooms,        \* roomId -> Map(socketId -> participant), in insertion order
  roomAdmins,   \* roomId -> Set(adminSocketId), in insertion order
  now,          \* the value Date.now() returned last
  crashed,      \* an uncaught exception has ended the process
  events,       \* how many client events have been handled so far
  outbox,       \* what the last handler emitted, in order
  lastEvent,    \* the event the last handler was called with
  lastUpdate,   \* per socket and room: the latest room:update sent to it
  joined,       \* per socket: the rooms it has joined (accepted join events)
  subscribed,   \* per socket: the rooms it has admin-subscribed to
  subscribedEmpty, \* ... and those among them that had no participant then
  scenario,     \* progress of a run join / admin:subscribe / consent / disconnect
  lastAllow,    \* per socket: room -> !!allow of its last stream:consent there
  heard         \* per socket: the <<admin, room>> of the admin:online sent to it

history == <<lastUpdate, joined, subscribed, subscribedEmpty, scenario,
             lastAllow, heard>>
vars == <<conn, data, socketRooms, rooms, roomAdmins, now, crashed, events,
          outbox, lastEvent, lastUpdate, joined, subscribed, subscribedEmpty,
          scenario, lastAllow, heard>>

\* the two module-level maps as one value, threaded through the store functions
Store == [rooms |-> rooms, roomAdmins |-> roomAdmins]

(* -------------------------- Map / Set helpers ------------------------- *)
\* Map.prototype.has / get / set / delete on a sequence of [socketId, p]
MapHas(m, k) == \E i \in 1..Len(m) : m[i].socketId = k
MapGet(m, k) == (CHOOSE i \in 1..Len(m) : m[i].socketId = k)
MapSet(m, k, v) ==
  IF MapHas(m, k)
    THEN [i \in 1..Len(m) |->
            IF m[i].socketId = k THEN [socketId |-> k, p |-> v] ELSE m[i]]
    ELSE Append(m, [socketId |-> k, p |-> v])
MapDelete(m, k) == SelectSeq(m, LAMBDA e : e.socketId # k)

\* Set.prototype.add / delete on a sequence without repetitions
SetHas(s, x) == \E i \in 1..Len(s) : s[i] = x
SetAdd(s, x) == IF SetHas(s, x) THEN s ELSE Append(s, x)
SetDelete(s, x) == SelectSeq(s, LAMBDA y : y # x)
SetValues(s) == {s[i] : i \in 1..Len(s)}

(* --------------------------- Membership store ------------------------- *)
ensureRoom(st, roomId) ==
  [rooms |-> IF roomId \in DOMAIN st.rooms
               THEN st.rooms ELSE st.rooms @@ (roomId :> <<>>),
   roomAdmins |-> IF roomId \in DOMAIN st.roomAdmins
               THEN st.roomAdmins ELSE st.roomAdmins @@ (roomId :> <<>>)]

\* a slip: { ...patch, ...prev }, the stored properties winning over the patch
upsertParticipantKeepsPrev(st, roomId, socketId, patch, t) ==
  LET s1 == ensureRoom(st, roomId)
      room == s1.rooms[roomId]
      prev == IF MapHas(room, socketId)
                THEN room[MapGet(room, socketId)].p ELSE EmptyObject
      next == Spread(Spread(patch, prev), "lastSeen" :> t)
  IN [s1 EXCEPT !.rooms[roomId] = MapSet(room, socketId, next)]

\* a slip: the room kept as a list, every upsert pushing a new entry
upsertParticipantPush(st, roomId, socketId, patch, t) ==
  LET s1 == ensureRoom(st, roomId)
      room == s1.rooms[roomId]
      prev == IF MapHas(room, socketId)
                THEN room[MapGet(room, socketId)].p ELSE EmptyObject
      next == Spread(Spread(prev, patch), "lastSeen" :> t)
  IN [s1 EXCEPT !.rooms[roomId] = Append(room, [socketId |-> socketId, p |-> next])]

upsertParticipant(st, roomId, socketId, patch, t) ==
  LET s1 == ensureRoom(st, roomId)
      room == s1.rooms[roomId]
      prev == IF MapHas(room, socketId)
                THEN room[MapGet(room, socketId)].p ELSE EmptyObject
      next == Spread(Spread(prev, patch), "lastSeen" :> t)
  IN [s1 EXCEPT !.rooms[roomId] = MapSet(room, socketId, next)]

\* a slip: the socket taken out of the room's admin set as well
removeParticipantAndAdmin(st, roomId, socketId) ==
  IF roomId \in DOMAIN st.rooms
    THEN [st EXCEPT !.rooms[roomId] = MapDelete(@, socketId),
                    !.roomAdmins[roomId] = SetDelete(@, socketId)]
    ELSE st

\* a slip: room.delete(roomId), a key no participant map holds
removeParticipantWrongKey(st, roomId, socketId) ==
  IF roomId \in DOMAIN st.rooms
    THEN [st EXCEPT !.rooms[roomId] = MapDelete(@, roomId)]
    ELSE st

removeParticipant(st, roomId, socketId) ==
  IF roomId \in DOMAIN st.rooms
    THEN [st EXCEPT !.rooms[roomId] = MapDelete(@, socketId)]
    ELSE st

\* a slip: the keys of the participant map instead of the admin set
listAdminsFromRooms(st, roomId) ==
  LET room == ensureRoom(st, roomId).rooms[roomId]
  IN [i \in 1..Len(room) |-> room[i].socketId]

\* [...roomAdmins.get(roomId).values()], read after ensureRoom
listAdmins(st, roomId) == ensureRoom(st, roomId).roomAdmins[roomId]

\* !p.streamAllowed is false
StreamAllowed(p) == "streamAllowed" \in DOMAIN p /\ p.streamAllowed

ViewOf(e) ==
  [socketId |-> e.socketId,
   userId |-> Get(e.p, "userId"),
   displayName |-> Get(e.p, "displayName"),
   lastSeen |-> Get(e.p, "lastSeen")]

\* (b.lastSeen || 0): upsertParticipant gives every record a lastSeen > 0
SortKey(v) == v.lastSeen

\* a slip: (a, b) => key(a) - key(b), ascending
InsertAsc(sorted, v) ==
  LET later == {i \in 1..Len(sorted) : SortKey(sorted[i]) > SortKey(v)}
      at == IF later = {} THEN Len(sorted) + 1
            ELSE CHOOSE i \in later : \A j \in later : i <= j
  IN SubSeq(sorted, 1, at - 1) \o <<v>> \o SubSeq(sorted, at, Len(sorted))

\* Array.prototype.sort with (a, b) => key(b) - key(a): stable, descending
InsertDesc(sorted, v) ==
  LET later == {i \in 1..Len(sorted) : SortKey(sorted[i]) < SortKey(v)}
      at == IF later = {} THEN Len(sorted) + 1
            ELSE CHOOSE i \in later : \A j \in later : i <= j
  IN SubSeq(sorted, 1, at - 1) \o <<v>> \o SubSeq(sorted, at, Len(sorted))

RECURSIVE SortDesc(_)
SortDesc(s) ==
  IF s = <<>> THEN <<>>
  ELSE InsertDesc(SortDesc(SubSeq(s, 1, Len(s) - 1)), s[Len(s)])

\* a slip: the filter on streamAllowed left out
listAllParticipants(st, roomId) ==
  LET room == ensureRoom(st, roomId).rooms[roomId]
  IN SortDesc([i \in 1..Len(room) |-> ViewOf(room[i])])

listStreamEnabledParticipants(st, roomId) ==
  LET room == ensureRoom(st, roomId).rooms[roomId]
      enabled == SelectSeq(room, LAMBDA e : StreamAllowed(e.p))
  IN SortDesc([i \in 1..Len(enabled) |-> ViewOf(enabled[i])])

(* ------------------------------ transport ----------------------------- *)
SocketIdOf == [i \in 1..NumSockets |-> "s" \o ToString(i)]
SocketId(i) == SocketIdOf[i]

\* a slip: a socket stays addressable under its id after it has closed
MembersOnceConnected(cn, sr, group) ==
  {c \in SocketIds : cn[c] # "idle" /\ (group \in sr[c] \/ group = c)}

\* the connected sockets that are members of `group` (io.to(group))
Members(cn, sr, group) == {c \in SocketIds : cn[c] = "connected" /\ group \in sr[c]}

\* one emit: nothing leaves the server when nobody is addressed
Emit(ev, via, rcpt, body) ==
  IF rcpt = {} THEN <<>> ELSE <<[ev |-> ev, via |-> via, rcpt |-> rcpt, body |-> body]>>

\* socket.emit(ev, body): to this socket alone
EmitToSocket(cn, c, ev, body) ==
  Emit(ev, c, IF cn[c] = "connected" THEN {c} ELSE {}, body)

\* io.to(group).emit(ev, body)
EmitToGroup(cn, sr, group, ev, body) == Emit(ev, group, Members(cn, sr, group), body)

\* a slip: the update sent to the participants' group
broadcastToRoomGroup(st, cn, sr, roomId) ==
  EmitToGroup(cn, sr, RoomGroup(roomId), "room:update",
              listStreamEnabledParticipants(st, roomId))

broadcastAdminUpdate(st, cn, sr, roomId) ==
  EmitToGroup(cn, sr, AdminGroup(roomId), "room:update",
              listStreamEnabledParticipants(st, roomId))

(* ------------------------------ history ------------------------------- *)
\* `again`: the socket had already registered this way (join, admin:subscribe)
\* in this room; `toClosed`: the `to` of a relay is the id of a closed socket
NoEvent == [name |-> "none", socket |-> Undefined, roomId |-> Undefined,
            userId |-> Undefined, allow |-> FALSE, handled |-> FALSE,
            again |-> FALSE, toClosed |-> FALSE]

Event(name, c, roomId, userId, allow, handled) ==
  [name |-> name, socket |-> c, roomId |-> roomId, userId |-> userId,
   allow |-> allow, handled |-> handled, again |-> FALSE, toClosed |-> FALSE]

\* an event whose handler returned at its guard
Ignored(name, c) == Event(name, c, Undefined, Undefined, FALSE, FALSE)

NotSeen == [seen |-> FALSE, list |-> <<>>]

\* the room:update emits of `box`, all of them about roomId, reach these sockets
UpdatesIn(box) == {i \in 1..Len(box) : box[i].ev = "room:update"}
NoteUpdates(prev, box, roomId) ==
  [c \in SocketIds |->
     [r \in RoomIds |->
        LET got == {i \in UpdatesIn(box) : c \in box[i].rcpt}
        IN IF r = roomId /\ got # {}
             THEN [seen |-> TRUE,
                   list |-> box[CHOOSE i \in got : \A j \in got : j <= i].body]
             ELSE prev[c][r]]]

Idle == [step |-> 0, a |-> Undefined, b |-> Undefined,
         roomId |-> Undefined, userId |-> Undefined]

\* A joins an untouched room, B admin-subscribes to it, A consents, A disconnects,
\* with no other event handled in between
Advance(sc, st, ev) ==
  IF ev.name = "join" /\ ev.handled
     /\ (ev.roomId \notin DOMAIN st.rooms
         \/ (st.rooms[ev.roomId] = <<>> /\ st.roomAdmins[ev.roomId] = <<>>))
    THEN [step |-> 1, a |-> ev.socket, b |-> Undefined,
          roomId |-> ev.roomId, userId |-> ev.userId]
  ELSE IF sc.step = 1 /\ ev.name = "admin:subscribe" /\ ev.handled
          /\ ev.roomId = sc.roomId /\ ev.socket # sc.a
    THEN [sc EXCEPT !.step = 2, !.b = ev.socket]
  ELSE IF sc.step = 2 /\ ev.name = "stream:consent" /\ ev.handled
          /\ ev.roomId = sc.roomId /\ ev.socket = sc.a
          /\ ev.userId = sc.userId /\ ev.allow
    THEN [sc EXCEPT !.step = 3]
  ELSE IF sc.step = 3 /\ ev.name = "disconnect" /\ ev.socket = sc.a
    THEN [sc EXCEPT !.step = 4]
  ELSE Idle

(* ------------------------------ handlers ------------------------------ *)
\* Date.now(): the clock never runs backwards, and it may have moved on since it
\* was last read.  Timestamps are only compared, so a later value is told apart
\* only when some record holds the current one.
DateNow ==
  {now} \cup {t \in {now + 1} :
               /\ t <= MaxNow
               /\ \E r \in DOMAIN rooms :
                    \E i \in 1..Len(rooms[r]) : rooms[r][i].p.lastSeen = now}

\* every handled client event is counted, up to MaxEvents of them
Budget == events < MaxEvents /\ events' = events + 1

\* a handler that returns before touching anything
Silent(name, c) ==
  /\ outbox' = <<>>
  /\ lastEvent' = Ignored(name, c)
  /\ scenario' = Idle
  /\ UNCHANGED <<conn, data, socketRooms, rooms, roomAdmins, now, crashed,
                 lastUpdate, joined, subscribed, subscribedEmpty, lastAllow, heard>>

\* a slip: if (!roomId) return;
JoinIgnoresRoomOnly(p) == Falsy(Get(p, "roomId"))

\* if (!roomId || !userId) return;
JoinIgnores(p) == Falsy(Get(p, "roomId")) \/ Falsy(Get(p, "userId"))

\* socket.on("join", ({ roomId, userId, displayName }) => ...)
HandleJoin(c, p) ==
  /\ ~crashed
  /\ Budget
  /\ conn[c] = "connected"
  /\ IF JoinIgnores(p) THEN Silent("join", c)
     ELSE \E t \in DateNow :
       LET roomId == Get(p, "roomId")
           userId == Get(p, "userId")
           displayName == Get(p, "displayName")
           ev == [Event("join", c, roomId, userId, FALSE, TRUE)
                    EXCEPT !.again = roomId \in joined[c]]
           d1 == Spread(data[c], [role |-> "participant", roomId |-> roomId,
                                  userId |-> userId])
           s1 == ensureRoom(Store, roomId)
           sr1 == [socketRooms EXCEPT ![c] = @ \cup {RoomGroup(roomId)}]
           s2 == upsertParticipant(s1, roomId, c,
                   [userId |-> userId,
                    displayName |-> IF Falsy(displayName) THEN userId ELSE displayName],
                   t)
           box == EmitToSocket(conn, c, "admin:list",
                               [roomId |-> roomId, admins |-> listAdmins(s2, roomId)])
                  \o broadcastAdminUpdate(s2, conn, sr1, roomId)
       IN /\ data' = [data EXCEPT ![c] = d1]
          /\ socketRooms' = sr1
          /\ rooms' = s2.rooms
          /\ roomAdmins' = s2.roomAdmins
          /\ outbox' = box
          /\ lastEvent' = ev
          /\ lastUpdate' = NoteUpdates(lastUpdate, box, roomId)
          /\ now' = t
          /\ joined' = [joined EXCEPT ![c] = @ \cup {roomId}]
          /\ scenario' = Advance(scenario, Store, ev)
          /\ UNCHANGED <<conn, crashed, subscribed, subscribedEmpty,
                         lastAllow, heard>>

\* if (!roomId) return;   with roomId = socket.data.roomId
PingIgnores(d) == Falsy(Get(d, "roomId"))

\* socket.on("ping", () => ...)
HandlePing(c) ==
  /\ ~crashed
  /\ Budget
  /\ conn[c] = "connected"
  /\ IF PingIgnores(data[c]) THEN Silent("ping", c)
     ELSE \E t \in DateNow :
       LET roomId == Get(data[c], "roomId")
           ev == Event("ping", c, roomId, Undefined, FALSE, TRUE)
           s1 == upsertParticipant(Store, roomId, c, EmptyObject, t)
           box == broadcastAdminUpdate(s1, conn, socketRooms, roomId)
       IN /\ rooms' = s1.rooms
          /\ roomAdmins' = s1.roomAdmins
          /\ outbox' = box
          /\ lastEvent' = ev
          /\ lastUpdate' = NoteUpdates(lastUpdate, box, roomId)
          /\ now' = t
          /\ scenario' = Advance(scenario, Store, ev)
          /\ UNCHANGED <<conn, data, socketRooms, crashed,
                         joined, subscribed, subscribedEmpty, lastAllow, heard>>

\* if (!roomId || !userId) return;
ConsentIgnores(p) == Falsy(Get(p, "roomId")) \/ Falsy(Get(p, "userId"))

\* socket.on("stream:consent", ({ roomId, userId, allow }) => ...)
HandleConsent(c, p) ==
  /\ ~crashed
  /\ Budget
  /\ conn[c] = "connected"
  /\ IF ConsentIgnores(p) THEN Silent("stream:consent", c)
     ELSE \E t \in DateNow :
       LET roomId == Get(p, "roomId")
           userId == Get(p, "userId")
           allow == ToBoolean(Get(p, "allow"))
           ev == Event("stream:consent", c, roomId, userId, allow, TRUE)
           s1 == upsertParticipant(Store, roomId, c,
                   [userId |-> userId, streamAllowed |-> allow], t)
           box == EmitToSocket(conn, c, "admin:list",
                               [roomId |-> roomId, admins |-> listAdmins(s1, roomId)])
                  \o broadcastAdminUpdate(s1, conn, socketRooms, roomId)
                  \o EmitToGroup(conn, socketRooms, AdminGroup(roomId),
                                 "participant:streamAllowed",
                                 [socketId |-> c, userId |-> userId, allow |-> allow])
       IN /\ rooms' = s1.rooms
          /\ roomAdmins' = s1.roomAdmins
          /\ outbox' = box
          /\ lastEvent' = ev
          /\ lastUpdate' = NoteUpdates(lastUpdate, box, roomId)
          /\ now' = t
          /\ scenario' = Advance(scenario, Store, ev)
          /\ lastAllow' = [lastAllow EXCEPT ![c] = (roomId :> allow) @@ @]
          /\ UNCHANGED <<conn, data, socketRooms, crashed,
                         joined, subscribed, subscribedEmpty, heard>>

\* if (!roomId) return;
SubscribeIgnores(p) == Falsy(Get(p, "roomId"))

\* socket.on("admin:subscribe", ({ roomId }) => ...)
HandleSubscribe(c, p) ==
  /\ ~crashed
  /\ Budget
  /\ conn[c] = "connected"
  /\ IF SubscribeIgnores(p) THEN Silent("admin:subscribe", c)
     ELSE
       LET roomId == Get(p, "roomId")
           ev == [Event("admin:subscribe", c, roomId, Undefined, FALSE, TRUE)
                    EXCEPT !.again = roomId \in subscribed[c]]
           d1 == Spread(data[c], [role |-> "admin", roomId |-> roomId])
           s1 == ensureRoom(Store, roomId)
           s2 == [s1 EXCEPT !.roomAdmins[roomId] = SetAdd(@, c)]
           sr1 == [socketRooms EXCEPT ![c] = @ \cup {AdminGroup(roomId)}]
           box == EmitToSocket(conn, c, "room:update",
                               listStreamEnabledParticipants(s2, roomId))
                  \o EmitToGroup(conn, sr1, RoomGroup(roomId), "admin:online",
                                 [adminSocketId |-> c])
       IN /\ data' = [data EXCEPT ![c] = d1]
          /\ socketRooms' = sr1
          /\ rooms' = s2.rooms
          /\ roomAdmins' = s2.roomAdmins
          /\ outbox' = box
          /\ lastEvent' = ev
          /\ lastUpdate' = NoteUpdates(lastUpdate, box, roomId)
          /\ subscribed' = [subscribed EXCEPT ![c] = @ \cup {roomId}]
          /\ subscribedEmpty' =
               [subscribedEmpty EXCEPT
                  ![c] = @ \cup {r \in {roomId} : s1.rooms[r] = <<>>}]
          /\ scenario' = Advance(scenario, Store, ev)
          /\ heard' = [s \in SocketIds |->
                         IF \E i \in 1..Len(box) :
                              box[i].ev = "admin:online" /\ s \in box[i].rcpt
                           THEN heard[s] \cup {<<c, roomId>>}
                           ELSE heard[s]]
          /\ UNCHANGED <<conn, now, crashed, joined, lastAllow>>

\* socket.on("webrtc:offer" | "webrtc:answer" | "webrtc:ice", ({ to, ... }) => ...)
HandleRelay(c, name, p) ==
  /\ ~crashed
  /\ Budget
  /\ conn[c] = "connected"
  /\ LET to == Get(p, "to")
         ev == [Event(name, c, Undefined, Undefined, FALSE, TRUE)
                  EXCEPT !.toClosed = to \in SocketIds /\ conn[to] = "closed"]
         body == ("from" :> c) @@ (RelayField(name) :> Get(p, RelayField(name)))
     IN /\ outbox' = EmitToGroup(conn, socketRooms, to, name, body)
        /\ lastEvent' = ev
        /\ scenario' = Advance(scenario, Store, ev)
  /\ UNCHANGED <<conn, data, socketRooms, rooms, roomAdmins, now, crashed,
                 lastUpdate, joined, subscribed, subscribedEmpty, lastAllow, heard>>

\* an event with no payload: destructuring undefined throws a TypeError inside the
\* listener, nothing catches it, and the process ends; its memory and its
\* connections are gone
HandleNoPayload(c, name) ==
  /\ ~crashed
  /\ Budget
  /\ conn[c] = "connected"
  /\ crashed' = TRUE
  /\ conn' = [s \in SocketIds |-> IF conn[s] = "idle" THEN "idle" ELSE "closed"]
  /\ data' = [s \in SocketIds |-> EmptyObject]
  /\ socketRooms' = [s \in SocketIds |-> {}]
  /\ rooms' = EmptyObject
  /\ roomAdmins' = EmptyObject
  /\ outbox' = <<>>
  /\ lastEvent' = Ignored(name, c)
  /\ lastUpdate' = [s \in SocketIds |-> [r \in RoomIds |-> NotSeen]]
  /\ joined' = [s \in SocketIds |-> {}]
  /\ subscribed' = [s \in SocketIds |-> {}]
  /\ subscribedEmpty' = [s \in SocketIds |-> {}]
  /\ scenario' = Idle
  /\ lastAllow' = [s \in SocketIds |-> EmptyObject]
  /\ heard' = [s \in SocketIds |-> {}]
  /\ UNCHANGED now

\* socket.on("disconnect", () => ...): the socket has left every group by then
HandleDisconnect(c) ==
  /\ ~crashed
  /\ Budget
  /\ conn[c] = "connected"
  /\ LET cn1 == [conn EXCEPT ![c] = "closed"]
         sr1 == [socketRooms EXCEPT ![c] = {}]
         roomId == Get(data[c], "roomId")
         role == Get(data[c], "role")
         ev == Event("disconnect", c, roomId, Undefined, FALSE, TRUE)
         s1 == IF role = "admin"
                 THEN [ensureRoom(Store, roomId) EXCEPT
                         !.roomAdmins[roomId] = SetDelete(@, c)]
                 ELSE Store
         off == IF role = "admin"
                 THEN EmitToGroup(cn1, sr1, RoomGroup(roomId), "admin:offline",
                                  [adminSocketId |-> c])
                 ELSE <<>>
         s2 == IF role = "participant" THEN removeParticipant(s1, roomId, c) ELSE s1
         box == off \o broadcastAdminUpdate(s2, cn1, sr1, roomId)
         forget == [lastUpdate EXCEPT ![c] = [r \in RoomIds |-> NotSeen]]
     IN /\ conn' = cn1
        /\ socketRooms' = sr1
        /\ lastEvent' = ev
        /\ scenario' = Advance(scenario, Store, ev)
        /\ joined' = [joined EXCEPT ![c] = {}]
        /\ subscribed' = [subscribed EXCEPT ![c] = {}]
        /\ subscribedEmpty' = [subscribedEmpty EXCEPT ![c] = {}]
        /\ lastAllow' = [lastAllow EXCEPT ![c] = EmptyObject]
        /\ heard' = [s \in SocketIds |->
                       IF s = c THEN {} ELSE {h \in heard[s] : h[1] # c}]
        /\ IF Falsy(roomId)
             THEN /\ outbox' = <<>>
                  /\ lastUpdate' = forget
                  /\ UNCHANGED <<rooms, roomAdmins>>
             ELSE /\ rooms' = s2.rooms
                  /\ roomAdmins' = s2.roomAdmins
                  /\ outbox' = box
                  /\ lastUpdate' = NoteUpdates(forget, box, roomId)
  /\ UNCHANGED <<data, now, crashed>>

\* io.on("connection", (socket) => ...): socket ids are handed out in order
Connect(i) ==
  /\ ~crashed
  /\ conn[SocketId(i)] = "idle"
  /\ \A j \in 1..(i - 1) : conn[SocketId(j)] # "idle"
  /\ conn' = [conn EXCEPT ![SocketId(i)] = "connected"]
  /\ socketRooms' = [socketRooms EXCEPT ![SocketId(i)] = {SocketId(i)}]
  /\ outbox' = <<>>
  /\ lastEvent' = Event("connection", SocketId(i), Undefined, Undefined, FALSE, TRUE)
  /\ UNCHANGED <<data, rooms, roomAdmins, now, crashed, events, history>>

(* --------------------------- specification ---------------------------- *)
RoomIdOf == [i \in 1..(NumRooms + 1) |-> "r" \o ToString(i)]
RoomId(i) == RoomIdOf[i]

\* room ids are opaque: clients name them in the order r1, r2, ...
Nameable(p) ==
  LET roomId == Get(p, "roomId")
  IN roomId \in RoomIds =>
       \/ roomId \in DOMAIN rooms
       \/ roomId = RoomId(Cardinality(DOMAIN rooms) + 1)

Init ==
  /\ conn = [c \in SocketIds |-> "idle"]
  /\ data = [c \in SocketIds |-> EmptyObject]
  /\ socketRooms = [c \in SocketIds |-> {}]
  /\ rooms = EmptyObject
  /\ roomAdmins = EmptyObject
  /\ now = 1
  /\ crashed = FALSE
  /\ events = 0
  /\ outbox = <<>>
  /\ lastEvent = NoEvent
  /\ lastUpdate = [c \in SocketIds |-> [r \in RoomIds |-> NotSeen]]
  /\ joined = [c \in SocketIds |-> {}]
  /\ subscribed = [c \in SocketIds |-> {}]
  /\ subscribedEmpty = [c \in SocketIds |-> {}]
  /\ scenario = Idle
  /\ lastAllow = [c \in SocketIds |-> EmptyObject]
  /\ heard = [c \in SocketIds |-> {}]

Next ==
  \/ \E i \in 1..NumSockets : Connect(i)
  \/ \E c \in SocketIds, p \in JoinPayloads : Nameable(p) /\ HandleJoin(c, p)
  \/ \E c \in SocketIds : HandlePing(c)
  \/ \E c \in SocketIds, p \in ConsentPayloads : Nameable(p) /\ HandleConsent(c, p)
  \/ \E c \in SocketIds, p \in SubscribePayloads : Nameable(p) /\ HandleSubscribe(c, p)
  \/ \E c \in SocketIds, name \in RelayEvents :
       \E p \in RelayPayloads(name) : HandleRelay(c, name, p)
  \/ \E c \in SocketIds, name \in DestructuringEvents : HandleNoPayload(c, name)
  \/ \E c \in SocketIds : HandleDisconnect(c)

Spec == Init /\ [][Next]_vars

(* ============================== claims ================================ *)
\* the room:update emits of the last handler
Updates == {i \in 1..Len(outbox) : outbox[i].ev = "room:update"}

\* the participant record socket c holds in room r consents to be streamed
Consents(p) == "streamAllowed" \in DOMAIN p /\ p.streamAllowed = TRUE
ConsentsIn(r, c) ==
  /\ r \in DOMAIN rooms
  /\ \E i \in 1..Len(rooms[r]) : rooms[r][i].socketId = c /\ Consents(rooms[r][i].p)

\* C1: once a socket's disconnect has been handled, no room:update emitted by
\* a later handler lists that socket.
C1_DisconnectedNeverListed ==
  \A i \in Updates : \A k \in 1..Len(outbox[i].body) :
    conn[outbox[i].body[k].socketId] = "closed"
      => /\ lastEvent.name = "disconnect"
         /\ lastEvent.socket = outbox[i].body[k].socketId

\* C2: whatever names a participant to the admins of a room (an entry of a
\* room:update, a participant:streamAllowed notification) names one whose
\* streamAllowed is true when it is sent, and nothing else about participants
\* is sent to an admin group by the handlers of the room.
C2_AdminsSeeOnlyStreamEnabled ==
  \A i \in 1..Len(outbox) :
    /\ outbox[i].ev = "room:update"
         => \A k \in 1..Len(outbox[i].body) :
              ConsentsIn(lastEvent.roomId, outbox[i].body[k].socketId)
    /\ outbox[i].ev = "participant:streamAllowed"
         => ConsentsIn(lastEvent.roomId, outbox[i].body.socketId)
    /\ (outbox[i].via \in {AdminGroup(r) : r \in RoomIds}
        /\ outbox[i].ev \notin RelayEvents)
         => outbox[i].ev \in {"room:update", "participant:streamAllowed"}

\* C3: after every handler, each connected member of a room's admin group has
\* been sent, as its latest room:update for the room, the list that
\* listStreamEnabledParticipants yields on the current store.
C3_AdminsConsistent ==
  \A r \in RoomIds : \A c \in SocketIds :
    (conn[c] = "connected" /\ AdminGroup(r) \in socketRooms[c])
      => /\ lastUpdate[c][r].seen
         /\ lastUpdate[c][r].list = listStreamEnabledParticipants(Store, r)

\* C3 witness: an admin's latest update is a non-empty list refreshed by another
\* socket's heartbeat
C3_Witness ==
  /\ lastEvent.name = "ping"
  /\ lastEvent.handled
  /\ \E c \in SocketIds \ {lastEvent.socket} :
       /\ conn[c] = "connected"
       /\ AdminGroup(lastEvent.roomId) \in socketRooms[c]
       /\ lastUpdate[c][lastEvent.roomId].seen
       /\ lastUpdate[c][lastEvent.roomId].list # <<>>

\* C4: a socket id is a key of at most one room's participant map.
C4_OneRecordPerConnection ==
  \A c \in SocketIds :
    Cardinality({r \in DOMAIN rooms : MapHas(rooms[r], c)}) <= 1

\* an emit of the last handler that reaches socket c
Reaches(i, c) == c \in outbox[i].rcpt

\* C5 as stated: when a join is handled, the joiner is sent an admin:online for
\* every connected admin that subscribed to the room while it had no participant.
C5_JoinerGetsAdminOnline ==
  (lastEvent.name = "join" /\ lastEvent.handled)
    => \A a \in SocketIds \ {lastEvent.socket} :
         (conn[a] = "connected" /\ lastEvent.roomId \in subscribedEmpty[a])
           => \E i \in 1..Len(outbox) :
                /\ outbox[i].ev = "admin:online"
                /\ Reaches(i, lastEvent.socket)
                /\ outbox[i].body.adminSocketId = a

\* C5 amended: when a join is handled, the joiner is sent an admin:list for the
\* room whose admins include every connected socket that has admin-subscribed
\* to the room; admin:online is emitted by the admin:subscribe handler alone.
C5_JoinerGetsAdminList ==
  /\ (lastEvent.name = "join" /\ lastEvent.handled)
       => \E i \in 1..Len(outbox) :
            /\ outbox[i].ev = "admin:list"
            /\ outbox[i].rcpt = {lastEvent.socket}
            /\ outbox[i].body.roomId = lastEvent.roomId
            /\ \A a \in SocketIds :
                 (conn[a] = "connected" /\ lastEvent.roomId \in subscribed[a])
                   => a \in SetValues(outbox[i].body.admins)
  /\ \A i \in 1..Len(outbox) :
       outbox[i].ev = "admin:online"
         => /\ lastEvent.name = "admin:subscribe"
            /\ outbox[i].body.adminSocketId = lastEvent.socket

\* C5 witness: a socket joins a room that an admin, still connected, subscribed
\* to while it was empty, and is sent the admin's id in an admin:list
C5_Witness ==
  /\ lastEvent.name = "join"
  /\ lastEvent.handled
  /\ \E a \in SocketIds \ {lastEvent.socket} :
       /\ conn[a] = "connected"
       /\ lastEvent.roomId \in subscribedEmpty[a]
       /\ \E i \in 1..Len(outbox) :
            /\ outbox[i].ev = "admin:list"
            /\ Reaches(i, lastEvent.socket)
            /\ a \in SetValues(outbox[i].body.admins)

\* the participant map of room r ("no room yet" reads as empty)
RoomOf(r) == IF r \in DOMAIN rooms THEN rooms[r] ELSE <<>>

\* the store with every admin set replaced by the sockets of A
WithAdmins(A) ==
  [rooms |-> rooms,
   roomAdmins |-> [r \in DOMAIN roomAdmins |->
                     SelectSeq([i \in 1..NumSockets |-> SocketId(i)],
                               LAMBDA x : x \in A)]]

\* C6: listStreamEnabledParticipants(R) has exactly one entry for each record
\* of R whose streamAllowed is true, built from that record, none for any other
\* record, and is the same whatever the admin sets hold.
C6_ListIsExactlyEnabled ==
  \A r \in RoomIds :
    LET list == listStreamEnabledParticipants(Store, r)
        room == RoomOf(r)
        enabled == {i \in 1..Len(room) : Consents(room[i].p)}
    IN /\ Len(list) = Cardinality(enabled)
       /\ \A i \in enabled :
            Cardinality({k \in 1..Len(list) : list[k].socketId = room[i].socketId}) = 1
       /\ \A k \in 1..Len(list) :
            \E i \in enabled :
              /\ list[k].socketId = room[i].socketId
              /\ list[k].userId = Get(room[i].p, "userId")
              /\ list[k].displayName = Get(room[i].p, "displayName")
              /\ list[k].lastSeen = room[i].p.lastSeen
       /\ \A A \in SUBSET SocketIds :
            listStreamEnabledParticipants(WithAdmins(A), r) = list

\* C6 witness: a room holding a record that consents and one that does not,
\* and an admin
C6_Witness ==
  \E r \in DOMAIN rooms :
    /\ \E i \in 1..Len(rooms[r]) : Consents(rooms[r][i].p)
    /\ \E i \in 1..Len(rooms[r]) : ~Consents(rooms[r][i].p)
    /\ roomAdmins[r] # <<>>

\* what socket c was sent by the last handler under the name ev
Sent(c, ev) == {i \in 1..Len(outbox) : outbox[i].ev = ev /\ Reaches(i, c)}

\* the last handler to run was that of the event `name`; a connection arriving
\* in between touches no room and leaves the run where it was
Answering(name) == lastEvent.name = name

\* C7: A joins an untouched room as u; B admin-subscribes and is sent an empty
\* room:update; A consents and B is sent a room:update with the one entry A / u
\* and a participant:streamAllowed with allow = true; A disconnects and B is
\* sent an empty room:update.
C7_Scenario ==
  /\ scenario.step = 2 /\ Answering("admin:subscribe")
       => /\ Sent(scenario.b, "room:update") # {}
          /\ \A i \in Sent(scenario.b, "room:update") : outbox[i].body = <<>>
  /\ scenario.step = 3 /\ Answering("stream:consent")
       => /\ Sent(scenario.b, "room:update") # {}
          /\ \A i \in Sent(scenario.b, "room:update") :
               /\ Len(outbox[i].body) = 1
               /\ outbox[i].body[1].socketId = scenario.a
               /\ outbox[i].body[1].userId = scenario.userId
          /\ \E i \in Sent(scenario.b, "participant:streamAllowed") :
               /\ outbox[i].body.socketId = scenario.a
               /\ outbox[i].body.userId = scenario.userId
               /\ outbox[i].body.allow = TRUE
  /\ scenario.step = 4 /\ Answering("disconnect")
       => /\ Sent(scenario.b, "room:update") # {}
          /\ \A i \in Sent(scenario.b, "room:update") : outbox[i].body = <<>>

\* C7 witness: the run has come to its end, A's disconnect
C7_Witness ==
  /\ scenario.step = 4
  /\ conn[scenario.a] = "closed"
  /\ conn[scenario.b] = "connected"
  /\ Sent(scenario.b, "room:update") # {}

\* C8: no client event ends the process.
C8_NoClientInputIsFatal == ~crashed

\* a handler that left the store, the groups and the socket data alone and
\* emitted nothing
Quiet ==
  /\ UNCHANGED <<rooms, roomAdmins, socketRooms, data>>
  /\ outbox' = <<>>

\* a payload whose roomId or userId is missing or empty
LacksRoomOrUser(p) ==
  \/ "roomId" \notin DOMAIN p \/ p.roomId = ""
  \/ "userId" \notin DOMAIN p \/ p.userId = ""
LacksRoom(p) == "roomId" \notin DOMAIN p \/ p.roomId = ""

\* C9: a join or stream:consent without a roomId or a userId, an
\* admin:subscribe without a roomId and a ping from a socket that has no room
\* leave the participant maps, the admin sets, the groups and the socket's
\* data as they were and emit nothing.
C9_MalformedIsSilent ==
  [][\A c \in SocketIds :
       /\ (/\ lastEvent'.name = "join" /\ lastEvent'.socket = c
           /\ \E p \in JoinPayloads : LacksRoomOrUser(p) /\ HandleJoin(c, p))
            => Quiet
       /\ (/\ lastEvent'.name = "stream:consent" /\ lastEvent'.socket = c
           /\ \E p \in ConsentPayloads : LacksRoomOrUser(p) /\ HandleConsent(c, p))
            => Quiet
       /\ (/\ lastEvent'.name = "admin:subscribe" /\ lastEvent'.socket = c
           /\ \E p \in SubscribePayloads : LacksRoom(p) /\ HandleSubscribe(c, p))
            => Quiet
       /\ (/\ lastEvent'.name = "ping" /\ lastEvent'.socket = c
           /\ "roomId" \notin DOMAIN data[c] /\ HandlePing(c))
            => Quiet
    ]_vars

\* C9 witness: a join was ignored while a room holds a participant and an admin
C9_Witness ==
  /\ lastEvent.name = "join"
  /\ ~lastEvent.handled
  /\ ~crashed
  /\ outbox = <<>>
  /\ \E r \in DOMAIN rooms : rooms[r] # <<>> /\ roomAdmins[r] # <<>>

\* the keys of a participant map, in order
KeysOf(m) == [i \in 1..Len(m) |-> m[i].socketId]

\* C10: a join by a socket that has already joined the room leaves the keys of
\* the room's participant map as they were (no key added, none repeated); an
\* admin:subscribe by a socket that has already subscribed to the room leaves
\* the room's admin set as it was.
C10_ReRegistrationIdempotent ==
  [][/\ (lastEvent'.name = "join" /\ lastEvent'.handled /\ lastEvent'.again
         /\ events' = events + 1)
          => KeysOf(rooms'[lastEvent'.roomId]) = KeysOf(rooms[lastEvent'.roomId])
     /\ (lastEvent'.name = "admin:subscribe" /\ lastEvent'.handled
         /\ lastEvent'.again /\ events' = events + 1)
          => roomAdmins'[lastEvent'.roomId] = roomAdmins[lastEvent'.roomId]
    ]_vars

\* C10 witness: a second join to the same room, the room holding another
\* participant as well
C10_Witness ==
  /\ lastEvent.name = "join"
  /\ lastEvent.handled
  /\ lastEvent.again
  /\ Len(rooms[lastEvent.roomId]) = 2

\* the record socket c holds in room r, and what a map holds for a room
\* ("no room yet" reads as empty)
RecordOf(r, c) == rooms[r][MapGet(rooms[r], c)].p
EntriesOf(m, r) == IF r \in DOMAIN m THEN m[r] ELSE <<>>

\* C11: while a socket is connected, the record it holds in a room it has sent
\* a stream:consent for has streamAllowed equal to !!allow of the last of these
\* events, whatever other events were handled since.
C11_ConsentLastWriteWins ==
  \A c \in SocketIds : \A r \in DOMAIN lastAllow[c] :
    /\ r \in DOMAIN rooms
    /\ MapHas(rooms[r], c)
    /\ "streamAllowed" \in DOMAIN RecordOf(r, c)
    /\ RecordOf(r, c).streamAllowed = lastAllow[c][r]

\* C11 witness: a socket that joined a room and consented there with allow =
\* true has just sent a heartbeat
C11_Witness ==
  /\ lastEvent.name = "ping"
  /\ lastEvent.handled
  /\ lastEvent.roomId \in joined[lastEvent.socket]
  /\ lastEvent.roomId \in DOMAIN lastAllow[lastEvent.socket]
  /\ lastAllow[lastEvent.socket][lastEvent.roomId] = TRUE

\* entries with a later lastSeen come first
Descending(list) ==
  \A i, j \in 1..Len(list) : list[i].lastSeen < list[j].lastSeen => j < i

\* C12: every room:update, and every list listStreamEnabledParticipants
\* returns, is sorted by lastSeen descending.
C12_UpdatesSortedDescending ==
  /\ \A i \in Updates : Descending(outbox[i].body)
  /\ \A r \in RoomIds : Descending(listStreamEnabledParticipants(Store, r))

\* C12 witness: a room:update of two entries with different lastSeen, listed
\* in the reverse of the order the participant map holds them in
C12_Witness ==
  \E i \in Updates :
    /\ Len(outbox[i].body) = 2
    /\ outbox[i].body[1].lastSeen > outbox[i].body[2].lastSeen
    /\ KeysOf(rooms[lastEvent.roomId])
         = <<outbox[i].body[2].socketId, outbox[i].body[1].socketId>>

\* C13: a webrtc:offer, webrtc:answer or webrtc:ice whose `to` is the id of a
\* socket that has disconnected emits nothing, does not end the process, and
\* leaves the participant maps, the admin sets, the groups, every socket's
\* data and every connection as they were.
C13_RelayToClosedIsSilent ==
  [][\A c \in SocketIds : \A name \in RelayEvents :
       (/\ lastEvent'.name = name /\ lastEvent'.socket = c
        /\ \E p \in RelayPayloads(name) :
             /\ Get(p, "to") \in SocketIds
             /\ conn[Get(p, "to")] = "closed"
             /\ HandleRelay(c, name, p))
         => /\ Quiet
            /\ ~crashed'
            /\ UNCHANGED conn
    ]_vars

\* C13 witness: a relay addressed to a closed socket was handled while a room
\* holds a participant
C13_Witness ==
  /\ lastEvent.name \in RelayEvents
  /\ lastEvent.toClosed
  /\ ~crashed
  /\ outbox = <<>>
  /\ \E r \in DOMAIN rooms : rooms[r] # <<>>

\* C14: join, ping and stream:consent leave every admin set as it was;
\* admin:subscribe leaves every participant map as it was; a disconnect that
\* changes an admin set changes no participant map, and one that changes a
\* participant map changes no admin set.
C14_AdminsAndParticipantsIndependent ==
  [][(lastEvent'.handled /\ ~crashed') =>
       /\ lastEvent'.name \in {"join", "ping", "stream:consent"}
            => \A r \in RoomIds : EntriesOf(roomAdmins', r) = EntriesOf(roomAdmins, r)
       /\ lastEvent'.name = "admin:subscribe"
            => \A r \in RoomIds : EntriesOf(rooms', r) = EntriesOf(rooms, r)
       /\ lastEvent'.name = "disconnect"
            => /\ (\E r \in RoomIds :
                     EntriesOf(roomAdmins', r) # EntriesOf(roomAdmins, r))
                    => \A r \in RoomIds : EntriesOf(rooms', r) = EntriesOf(rooms, r)
               /\ (\E r \in RoomIds : EntriesOf(rooms', r) # EntriesOf(rooms, r))
                    => \A r \in RoomIds :
                         EntriesOf(roomAdmins', r) = EntriesOf(roomAdmins, r)
    ]_vars

\* C14 witness: a socket that holds a participant record in the room it
\* administers has disconnected; it is out of the admin set, its record stays
C14_Witness ==
  /\ lastEvent.name = "disconnect"
  /\ Get(data[lastEvent.socket], "role") = "admin"
  /\ ~SetHas(roomAdmins[lastEvent.roomId], lastEvent.socket)
  /\ MapHas(rooms[lastEvent.roomId], lastEvent.socket)

\* a record without its lastSeen
WithoutLastSeen(p) == [f \in DOMAIN p \ {"lastSeen"} |-> p[f]]

\* C15: a heartbeat leaves the keys of every participant map, and userId,
\* displayName and streamAllowed of every record, as they were; all it changes
\* in the store is the lastSeen of the record its socket already holds in the
\* socket's room.
C15_HeartbeatOnlyRefreshesLastSeen ==
  [][(lastEvent'.name = "ping" /\ lastEvent'.handled) =>
       /\ roomAdmins' = roomAdmins
       /\ \A r \in RoomIds :
            KeysOf(EntriesOf(rooms', r)) = KeysOf(EntriesOf(rooms, r))
       /\ \A r \in DOMAIN rooms : \A i \in 1..Len(rooms[r]) :
            /\ WithoutLastSeen(rooms'[r][i].p) = WithoutLastSeen(rooms[r][i].p)
            /\ rooms'[r][i].p.lastSeen # rooms[r][i].p.lastSeen
                 => /\ r = lastEvent'.roomId
                    /\ rooms[r][i].socketId = lastEvent'.socket
    ]_vars

\* C16: when an admin:subscribe for a room is handled, every other connected
\* socket listed by listStreamEnabledParticipants for the room is sent an
\* admin:online carrying the subscriber's id.
C16_ConsentingHearAdminOnline ==
  (lastEvent.name = "admin:subscribe" /\ lastEvent.handled)
    => LET list == listStreamEnabledParticipants(Store, lastEvent.roomId)
       IN \A k \in 1..Len(list) :
            (conn[list[k].socketId] = "connected"
             /\ list[k].socketId # lastEvent.socket)
              => \E i \in Sent(list[k].socketId, "admin:online") :
                   outbox[i].body.adminSocketId = lastEvent.socket

\* C17: every participant record, and every entry of every room:update, has a
\* non-empty userId and a non-empty displayName.
C17_RecordsNamed ==
  /\ \A r \in DOMAIN rooms : \A i \in 1..Len(rooms[r]) :
       /\ ~Falsy(Get(rooms[r][i].p, "userId"))
       /\ ~Falsy(Get(rooms[r][i].p, "displayName"))
  /\ \A i \in Updates : \A k \in 1..Len(outbox[i].body) :
       /\ ~Falsy(outbox[i].body[k].userId)
       /\ ~Falsy(outbox[i].body[k].displayName)

\* C18: every id in an admin set is that of a connected socket, and so is
\* every id an admin:list carries.
C18_AdminSetsHoldLiveAdmins ==
  /\ \A r \in DOMAIN roomAdmins : \A a \in SetValues(roomAdmins[r]) :
       conn[a] = "connected"
  /\ \A i \in 1..Len(outbox) :
       outbox[i].ev = "admin:list"
         => \A a \in SetValues(outbox[i].body.admins) : conn[a] = "connected"

\* C19: a forwarded webrtc:offer, webrtc:answer or webrtc:ice is addressed to a
\* socket id, reaches that connected socket and no other, and carries the
\* sender's id as `from` and the payload as it came.
C19_RelayIsDirectSend ==
  \A i \in 1..Len(outbox) :
    outbox[i].ev \in RelayEvents
      => /\ outbox[i].via \in SocketIds
         /\ outbox[i].rcpt = {outbox[i].via}
         /\ outbox[i].body.from = lastEvent.socket
         /\ outbox[i].body[RelayField(outbox[i].ev)] = "blob"

\* C20: when a socket disconnects, every connected socket that was sent an
\* admin:online carrying its id for a room is sent, through that room's
\* participant group, an admin:offline carrying its id.
C20_AdminOnlineMatchedByOffline ==
  [][(lastEvent'.name = "disconnect" /\ events' = events + 1) =>
       \A p \in SocketIds : \A h \in heard[p] :
         (h[1] = lastEvent'.socket /\ conn'[p] = "connected")
           => \E i \in 1..Len(outbox') :
                /\ outbox'[i].ev = "admin:offline"
                /\ outbox'[i].via = RoomGroup(h[2])
                /\ p \in outbox'[i].rcpt
                /\ outbox'[i].body.adminSocketId = h[1]
    ]_vars

====
